---------------------------- MODULE Spec2Model ----------------------------
(***************************************************************************)
(* A model of vault-dweller: the vault index (src/src/lib.rs) and the      *)
(* dataview query language evaluated against it (src/src/dataview.rs).     *)
(*                                                                         *)
(* A Rust String is modelled as a sequence of one-character strings, so    *)
(* that the character-level operations of the code (replace, find, split,  *)
(* the parser's filters, sort's byte order) are computed and not assumed.  *)
(***************************************************************************)
EXTENDS Integers, Sequences, FiniteSets, TLC

VARIABLES
    sep,    \* the path separator of the platform the crate is built for
    disk,   \* the directory the caller points VaultIndex::new at
    vi,     \* what VaultIndex::new returned (kind "None" before the call)
    last    \* the last read-only operation performed and what it returned

vars == <<sep, disk, vi, last>>

(***************************************************************************)
(* Characters and strings                                                  *)
(***************************************************************************)
UpperSeq == << "A", "B", "C", "D", "E", "F", "G", "H", "I", "J", "K", "L", "M",
               "N", "O", "P", "Q", "R", "S", "T", "U", "V", "W", "X", "Y", "Z" >>
LowerSeq == << "a", "b", "c", "d", "e", "f", "g", "h", "i", "j", "k", "l", "m",
               "n", "o", "p", "q", "r", "s", "t", "u", "v", "w", "x", "y", "z" >>
DigitSeq == << "0", "1", "2", "3", "4", "5", "6", "7", "8", "9" >>

Range(s) == { s[i] : i \in 1..Len(s) }

Upper == Range(UpperSeq)
Lower == Range(LowerSeq)
Digit == Range(DigitSeq)

\* The grave accent (byte 96). The TLA+ lexer cannot hold that character in a
\* string literal, so this one character is written with a name of its own.
Backtick == "<grave>"

\* The punctuation that occurs in the model's strings, with its ASCII code.
PunctCode ==
    ("\t" :> 9) @@ ("\n" :> 10) @@ ("\r" :> 13) @@ (" " :> 32) @@ ("!" :> 33)
    @@ ("#" :> 35) @@ ("$" :> 36) @@ ("(" :> 40) @@ (")" :> 41) @@ ("-" :> 45)
    @@ ("." :> 46) @@ ("/" :> 47) @@ ("\\" :> 92) @@ ("_" :> 95) @@ (Backtick :> 96)

Char == Upper \cup Lower \cup Digit \cup DOMAIN PunctCode

IndexIn(s, c) == CHOOSE i \in 1..Len(s) : s[i] = c

\* The byte value of a character: String's Ord compares bytes.
CharCode ==
    [c \in Char |->
        IF c \in Upper THEN 64 + IndexIn(UpperSeq, c)
        ELSE IF c \in Lower THEN 96 + IndexIn(LowerSeq, c)
        ELSE IF c \in Digit THEN 47 + IndexIn(DigitSeq, c)
        ELSE PunctCode[c]]

IsWhitespace(c) == c \in {" ", "\t", "\n", "\r"}           \* char::is_whitespace
IsAlphanumeric(c) == c \in Upper \cup Lower \cup Digit      \* char::is_alphanumeric
IsAsciiAlphabetic(c) == c \in Upper \cup Lower
IsWordChar(c) == IsAlphanumeric(c) \/ c = "_"               \* regex \w

\* Lexicographic order of two strings by byte value (String's Ord).
RECURSIVE StrLess(_, _)
StrLess(a, b) ==
    IF b = <<>> THEN FALSE
    ELSE IF a = <<>> THEN TRUE
    ELSE IF Head(a) = Head(b) THEN StrLess(Tail(a), Tail(b))
    ELSE CharCode[Head(a)] < CharCode[Head(b)]

Contains(list, item) == \E i \in 1..Len(list) : list[i] = item

\* Vec::sort on a Vec<String>: the ascending arrangement of the elements.
RECURSIVE SortInsert(_, _)
SortInsert(sorted, item) ==
    IF sorted = <<>> THEN << item >>
    ELSE IF StrLess(item, Head(sorted)) THEN << item >> \o sorted
    ELSE << Head(sorted) >> \o SortInsert(Tail(sorted), item)

RECURSIVE Sort(_)
Sort(list) ==
    IF list = <<>> THEN <<>>
    ELSE SortInsert(Sort(SubSeq(list, 1, Len(list) - 1)), list[Len(list)])

\* Vec::dedup: removes consecutive repeated elements.
RECURSIVE Dedup(_)
Dedup(list) ==
    IF Len(list) <= 1 THEN list
    ELSE IF list[1] = list[2] THEN Dedup(Tail(list))
    ELSE << list[1] >> \o Dedup(Tail(list))

(***************************************************************************)
(* Option<T>                                                               *)
(***************************************************************************)
None == [some |-> FALSE]
Some(v) == [some |-> TRUE, val |-> v]

(***************************************************************************)
(* dataview.rs: the combination of match lists                             *)
(***************************************************************************)
\* A faulty eval_or: the lists appended, neither sorted nor deduplicated.
eval_or_unsorted(x, y) ==
    IF x.some /\ y.some THEN Some(x.val \o y.val)
    ELSE IF x.some THEN x
    ELSE y

\* eval_or: both lists appended, sorted, deduplicated; None when empty.
eval_or(x, y) ==
    LET x_part == IF x.some THEN x.val ELSE <<>>
        y_part == IF y.some THEN y.val ELSE <<>>
        out_vec == Dedup(Sort(x_part \o y_part))
    IN  IF out_vec = <<>> THEN None ELSE Some(out_vec)

\* The items of x_list that y_list contains, in x_list's order.
RECURSIVE KeepContained(_, _)
KeepContained(x_list, y_list) ==
    IF x_list = <<>> THEN <<>>
    ELSE (IF Contains(y_list, Head(x_list)) THEN << Head(x_list) >> ELSE <<>>)
         \o KeepContained(Tail(x_list), y_list)

\* A faulty eval_and: an absent operand is ignored, as eval_or ignores it.
eval_and_keeping_side(x, y) ==
    IF x.some /\ y.some
    THEN (IF KeepContained(x.val, y.val) = <<>> THEN None
          ELSE Some(KeepContained(x.val, y.val)))
    ELSE IF x.some THEN x
    ELSE y

\* eval_and: filled only when both operands are present; None when empty.
eval_and(x, y) ==
    LET out_vec == IF x.some /\ y.some THEN KeepContained(x.val, y.val) ELSE <<>>
    IN  IF out_vec = <<>> THEN None ELSE Some(out_vec)

(***************************************************************************)
(* dataview.rs: the AST                                                    *)
(***************************************************************************)
\* enum DataSource
DataSourceTag(name) == [kind |-> "Tag", name |-> name]
DataSourceFolder(name) == [kind |-> "Folder", name |-> name]
DataSourceFile(name) == [kind |-> "File", name |-> name]
DataSourceInLink(name) == [kind |-> "InLink", name |-> name]
DataSourceOutLink(name) == [kind |-> "OutLink", name |-> name]

\* enum Expr
ExprInvalid == [type |-> "Invalid"]
ExprSource(source) == [type |-> "Source", source |-> source]
ExprFrom(e) == [type |-> "From", e |-> e]
ExprList(from) == [type |-> "List", from |-> from]
ExprOr(x, y) == [type |-> "Or", x |-> x, y |-> y]
ExprAnd(x, y) == [type |-> "And", x |-> x, y |-> y]
ExprNegate(e) == [type |-> "Negate", e |-> e]

(***************************************************************************)
(* dataview.rs: parser().  A parser takes the input and the position of    *)
(* the next character (1-based) and either fails or succeeds with an       *)
(* output and the position after what it consumed.  The combinators are    *)
(* chumsky's: `or` is ordered choice, `repeated` stops at the first        *)
(* iteration that fails and rewinds to where that iteration began,         *)
(* `padded` skips whitespace on both sides, text::keyword reads a whole    *)
(* identifier and compares it with the keyword.                            *)
(***************************************************************************)
Fail == [ok |-> FALSE]
Done(out, pos) == [ok |-> TRUE, out |-> out, pos |-> pos]

At(s, i, c) == i <= Len(s) /\ s[i] = c

\* The first position from i on whose character does not satisfy the test.
RECURSIVE SkipWhitespace(_, _)
SkipWhitespace(s, i) ==
    IF i <= Len(s) /\ IsWhitespace(s[i]) THEN SkipWhitespace(s, i + 1) ELSE i

\* filter(alphanumeric or '/' or '-' or '_').repeated()
IsTagPathChar(c) == IsAlphanumeric(c) \/ c = "/" \/ c = "-" \/ c = "_"

RECURSIVE TagPathEnd(_, _)
TagPathEnd(s, i) ==
    IF i <= Len(s) /\ IsTagPathChar(s[i]) THEN TagPathEnd(s, i + 1) ELSE i

\* text::ident: a letter or '_', then letters, digits and '_'.
RECURSIVE IdentEnd(_, _)
IdentEnd(s, i) ==
    IF i <= Len(s) /\ (IsAlphanumeric(s[i]) \/ s[i] = "_") THEN IdentEnd(s, i + 1) ELSE i

IdentOf(s, i, e) == Done(SubSeq(s, i, e - 1), e)

ident(s, i) ==
    IF i <= Len(s) /\ (IsAsciiAlphabetic(s[i]) \/ s[i] = "_")
    THEN IdentOf(s, i, IdentEnd(s, i + 1))
    ELSE Fail

\* text::keyword(kw): the identifier read at the position, if it is kw.
KeywordOf(id, kw) == IF id.ok /\ id.out = kw THEN Done(kw, id.pos) ELSE Fail

keyword(s, i, kw) == KeywordOf(ident(s, i), kw)

\* let tag = just('#').ignore_then(tag_path).map(..).padded()
TagOf(s, j, e) ==
    Done(ExprSource(DataSourceTag(SubSeq(s, j + 1, e - 1))), SkipWhitespace(s, e))

TagAt(s, j) == IF At(s, j, "#") THEN TagOf(s, j, TagPathEnd(s, j + 1)) ELSE Fail

tag(s, i) == TagAt(s, SkipWhitespace(s, i))

\* The operator between two atoms: text::keyword("AND"), ("and"), ("OR"),
\* ("or"), tried in this order; each reads the same identifier and compares.
OperatorOf(id) ==
    IF KeywordOf(id, << "A", "N", "D" >>).ok THEN Done("And", id.pos)
    ELSE IF KeywordOf(id, << "a", "n", "d" >>).ok THEN Done("And", id.pos)
    ELSE IF KeywordOf(id, << "O", "R" >>).ok THEN Done("Or", id.pos)
    ELSE IF KeywordOf(id, << "o", "r" >>).ok THEN Done("Or", id.pos)
    ELSE Fail

operator(s, i) == OperatorOf(ident(s, i))

\* A faulty fold: every operator builds an Or node.
ApplyOperatorAsOr(op, lhs, rhs) == ExprOr(lhs, rhs)

ApplyOperator(op, lhs, rhs) == IF op = "And" THEN ExprAnd(lhs, rhs) ELSE ExprOr(lhs, rhs)

\* .padded(): the whitespace after a successful parse is consumed too.
Padded(s, r) == IF r.ok THEN Done(r.out, SkipWhitespace(s, r.pos)) ELSE Fail

RECURSIVE expr(_, _), atom(_, _), paren(_, _), FoldOperands(_, _, _)
RECURSIVE ParenClose(_, _), AtomOr(_, _, _), AtomAt(_, _), ExprFold(_, _)
RECURSIVE FoldOperator(_, _, _, _), FoldAtom(_, _, _, _, _)

\* let paren = expr.delimited_by(just('('), just(')'))
ParenClose(s, e) ==
    IF e.ok /\ At(s, e.pos, ")") THEN Done(e.out, e.pos + 1) ELSE Fail

paren(s, i) == IF At(s, i, "(") THEN ParenClose(s, expr(s, i + 1)) ELSE Fail

\* let atom = tag.or(paren).padded()
AtomOr(s, j, t) == IF t.ok THEN Padded(s, t) ELSE Padded(s, paren(s, j))

AtomAt(s, j) == AtomOr(s, j, tag(s, j))

atom(s, i) == AtomAt(s, SkipWhitespace(s, i))

\* A faulty fold: the operands to the right are folded first.
FoldAtomToTheRight(s, i, lhs, op, rhs) ==
    IF ~rhs.ok THEN Done(lhs, i)
    ELSE Done(ApplyOperator(op.out, lhs, FoldOperands(s, rhs.pos, rhs.out).out),
              FoldOperands(s, rhs.pos, rhs.out).pos)

\* (operator.then(atom)).repeated() folded to the left onto lhs: an iteration
\* that fails ends the repetition where that iteration began.
FoldAtom(s, i, lhs, op, rhs) ==
    IF ~rhs.ok THEN Done(lhs, i)
    ELSE FoldOperands(s, rhs.pos, ApplyOperator(op.out, lhs, rhs.out))

FoldOperator(s, i, lhs, op) ==
    IF ~op.ok THEN Done(lhs, i) ELSE FoldAtom(s, i, lhs, op, atom(s, op.pos))

FoldOperands(s, i, lhs) == FoldOperator(s, i, lhs, operator(s, i))

\* let ope = atom.then(..repeated()).foldl(..), which is expr
ExprFold(s, a) == IF a.ok THEN FoldOperands(s, a.pos, a.out) ELSE Fail

expr(s, i) == ExprFold(s, atom(s, i))

\* let from = text::keyword("FROM").ignore_then(expr).map(..).padded()
FromExpr(s, e) ==
    IF e.ok THEN Done(ExprFrom(e.out), SkipWhitespace(s, e.pos)) ELSE Fail

FromKeyword(s, k) == IF ~k.ok THEN Fail ELSE FromExpr(s, expr(s, k.pos))

from(s, i) == FromKeyword(s, keyword(s, SkipWhitespace(s, i), << "F", "R", "O", "M" >>))

\* let list = text::keyword("LIST").ignore_then(from).map(..); decl is list.padded()
ListFrom(s, f) ==
    IF f.ok THEN Done(ExprList(f.out), SkipWhitespace(s, f.pos)) ELSE Fail

ListKeyword(s, k) == IF ~k.ok THEN Fail ELSE ListFrom(s, from(s, k.pos))

decl(s, i) == ListKeyword(s, keyword(s, SkipWhitespace(s, i), << "L", "I", "S", "T" >>))

\* parser().parse_recovery_verbose(in_query): the parser has no recovery
\* strategy and does not require the end of the input, so the outcome is
\* (Some(ast), no errors) when decl succeeds at the start of the input and
\* (None, one error) when it does not.
ParseOutcome(d) ==
    IF d.ok THEN [ast |-> Some(d.out), err_vec |-> <<>>]
    ELSE [ast |-> None, err_vec |-> << "parse error" >>]

parse_recovery_verbose(in_query) == ParseOutcome(decl(in_query, 1))

(***************************************************************************)
(* dataview.rs: evaluation.  A call either returns or panics (todo!()),    *)
(* and a panic unwinds through every caller.                               *)
(***************************************************************************)
Panic == [kind |-> "Panic"]
Returned(val) == [kind |-> "Returned", val |-> val]

\* IndexMap::get / HashMap::get
MapGet(map, key) == IF key \in DOMAIN map THEN Some(map[key]) ELSE None

\* QueryStruct::new
QueryStructNew == [output_type |-> "List", matches |-> None]

\* DataSource::get_matches: a clone of the tag's list; todo!() for the rest.
get_matches(source, index) ==
    IF source.kind = "Tag" THEN Returned(MapGet(index.tags, source.name)) ELSE Panic

\* Expr::From: the matches of the inner expression are stored in the struct.
EvalFrom(m) ==
    IF m.kind = "Panic" THEN Panic
    ELSE Returned([result |-> m.val.result,
                   query_struct |-> [m.val.query_struct EXCEPT
                                        !.matches = m.val.result.val]])

\* Expr::Source
EvalSource(m, query_struct) ==
    IF m.kind = "Panic" THEN Panic
    ELSE Returned([result |-> [ok |-> TRUE, val |-> m.val],
                   query_struct |-> query_struct])

\* Expr::Or and Expr::And, both operands evaluated.
EvalCombine(type, x, y) ==
    IF y.kind = "Panic" THEN Panic
    ELSE Returned([result |-> [ok |-> TRUE,
                               val |-> IF type = "Or"
                                       THEN eval_or(x.val.result.val, y.val.result.val)
                                       ELSE eval_and(x.val.result.val, y.val.result.val)],
                   query_struct |-> y.val.query_struct])

\* eval: Returned(<<result, query_struct>>), the result being Ok(Option<Vec>)
\* or Err(String); no arm constructs an Err.  The operands of Or and And are
\* evaluated left then right, and `?` would hand an Err on.
RECURSIVE eval(_, _, _), EvalRight(_, _, _)

EvalRight(e, index, x) ==
    IF x.kind = "Panic" THEN Panic
    ELSE EvalCombine(e.type, x, eval(e.y, index, x.val.query_struct))

eval(e, index, query_struct) ==
    CASE e.type = "List" ->
            eval(e.from, index, [query_struct EXCEPT !.output_type = "List"])
      [] e.type = "From" -> EvalFrom(eval(e.e, index, query_struct))
      [] e.type = "Source" -> EvalSource(get_matches(e.source, index), query_struct)
      [] e.type \in {"Or", "And"} -> EvalRight(e, index, eval(e.x, index, query_struct))
      [] OTHER -> Panic

\* QueryStruct::build_output
ListItems(matches) ==
    [i \in 1..Len(matches) |-> [note_name |-> Some(matches[i]), additional_info |-> None]]

build_output(query_struct) ==
    IF query_struct.output_type = "List"
    THEN Returned([kind |-> "List",
                   items |-> ListItems(IF query_struct.matches.some
                                       THEN query_struct.matches.val ELSE <<>>)])
    ELSE Panic

\* to_view: the QueryOutput for a query string, or a panic.
ViewOfResult(r) ==
    IF r.kind = "Panic" THEN Panic
    ELSE IF r.val.result.ok THEN build_output(r.val.query_struct)
    ELSE Returned([kind |-> "Err", diagnostics |-> << r.val.result.val >>])

ViewOfParse(parsed, index) ==
    IF parsed.ast.some THEN ViewOfResult(eval(parsed.ast.val, index, QueryStructNew))
    ELSE Returned([kind |-> "Err", diagnostics |-> parsed.err_vec])

to_view(in_query, index) == ViewOfParse(parse_recovery_verbose(in_query), index)

(***************************************************************************)
(* lib.rs: Tree.  arena[k + 1] is the node with index k.                   *)
(***************************************************************************)
TreeNodeNew(index, item, name, depth) ==
    [name |-> name, index |-> index, item |-> item, children |-> <<>>, depth |-> depth]

\* Tree::add_node: pushes a node and returns its index.
add_node(tree, name, item, depth) ==
    LET idx == Len(tree.arena)
    IN  [tree |-> [arena |-> Append(tree.arena, TreeNodeNew(idx, item, name, depth))],
         idx |-> idx]

\* Tree::new
TreeNew == add_node([arena |-> <<>>], << "r", "o", "o", "t" >>, "Root", 0).tree

\* Tree::has_node
has_node(tree, index) == Len(tree.arena) > index

\* A faulty add_child: the new node keeps the depth 0 it was pushed with.
add_child_depth_unset(tree, parent, name, item) ==
    IF ~has_node(tree, parent) THEN [tree |-> tree, ret |-> None]
    ELSE [tree |-> [arena |-> [add_node(tree, name, item, 0).tree.arena EXCEPT
                                 ![parent + 1].children = Append(@, Len(tree.arena))]],
          ret |-> Some(Len(tree.arena))]

\* Tree::add_child: None, and the arena left as it was, when parent is not a
\* node; else the new node pushed with depth 0, its index pushed to the
\* parent's children, and its depth set to the parent's depth plus 1.
add_child(tree, parent, name, item) ==
    IF ~has_node(tree, parent) THEN [tree |-> tree, ret |-> None]
    ELSE LET added == add_node(tree, name, item, 0)
             idx == added.idx
             depth == added.tree.arena[parent + 1].depth
             arena == [added.tree.arena EXCEPT
                         ![parent + 1].children = Append(@, idx),
                         ![idx + 1].depth = depth + 1]
         IN  [tree |-> [arena |-> arena], ret |-> Some(idx)]

(***************************************************************************)
(* The file system.  A directory entry is a record: its name (the last     *)
(* component of its path), whether it is a directory, whether reading it   *)
(* succeeds, a directory's entries in the order read_dir yields them, and  *)
(* a file's content.  A PathBuf is the sequence of its components.         *)
(***************************************************************************)
FsFile(name, content) ==
    [name |-> name, isDir |-> FALSE, readable |-> TRUE, content |-> content, entries |-> <<>>]
FsUnreadable(name) ==
    [name |-> name, isDir |-> FALSE, readable |-> FALSE, content |-> <<>>, entries |-> <<>>]
FsDir(name, entries) ==
    [name |-> name, isDir |-> TRUE, readable |-> TRUE, content |-> <<>>, entries |-> entries]

\* The position of the last c in s, 0 when there is none.
RECURSIVE LastIndexOf(_, _)
LastIndexOf(s, c) ==
    IF s = <<>> THEN 0
    ELSE IF s[Len(s)] = c THEN Len(s)
    ELSE LastIndexOf(SubSeq(s, 1, Len(s) - 1), c)

\* Path::extension of a file name: what follows the last '.', and None when
\* the name has no '.' or its only '.' is its first character.
extension(name) ==
    LET dot == LastIndexOf(name, ".")
    IN  IF dot <= 1 THEN None ELSE Some(SubSeq(name, dot + 1, Len(name)))

\* Path::file_stem of a file name: what precedes the last '.', and the whole
\* name in the cases where extension is None.
file_stem(name) ==
    LET dot == LastIndexOf(name, ".")
    IN  IF dot <= 1 THEN name ELSE SubSeq(name, 1, dot - 1)

\* Path::file_name: the last component, None for an empty path or one that
\* ends in "..".
file_name(path) ==
    IF path = <<>> \/ path[Len(path)] = << ".", "." >> THEN None
    ELSE Some(path[Len(path)])

\* The strings of parts with the character c between them.
RECURSIVE Join(_, _)
Join(parts, c) ==
    IF parts = <<>> THEN <<>>
    ELSE IF Len(parts) = 1 THEN parts[1]
    ELSE parts[1] \o << c >> \o Join(Tail(parts), c)

\* Path::to_str: the components joined by the platform's separator.
to_str(path, separator) == Join(path, separator)

\* The entry a path below the directory dir names, None when there is none.
RECURSIVE Lookup(_, _)
Lookup(dir, path) ==
    IF path = <<>> THEN Some(dir)
    ELSE IF ~dir.isDir THEN None
    ELSE LET hits == { i \in 1..Len(dir.entries) : dir.entries[i].name = path[1] }
         IN  IF hits = {} THEN None
             ELSE Lookup(dir.entries[CHOOSE i \in hits : TRUE], Tail(path))

(***************************************************************************)
(* lib.rs: the metadata of a note.  The three patterns of                  *)
(* generate_note_item are computed as the regex crate matches them:        *)
(* leftmost first, and replace_all / captures_iter over the successive     *)
(* non-overlapping matches.  Front matter and the properties it yields     *)
(* are outside this model; no content of the model begins with "---".      *)
(***************************************************************************)
FenceAt(s, i) ==
    i + 2 <= Len(s) /\ s[i] = Backtick /\ s[i + 1] = Backtick /\ s[i + 2] = Backtick

\* codeblock_matcher, ```[\w\W]*```, replaced by "": the greedy middle runs to
\* the last fence, so the one match is from the first fence that has another
\* fence at least 3 further on, to the end of the last fence.
strip_codeblocks(s) ==
    LET opens == { i \in 1..Len(s) : FenceAt(s, i) /\ \E j \in (i + 3)..Len(s) : FenceAt(s, j) }
    IN  IF opens = {} THEN s
        ELSE LET i == CHOOSE a \in opens : \A b \in opens : a <= b
                 j == CHOOSE a \in (i + 3)..Len(s) :
                        FenceAt(s, a) /\ \A b \in (i + 3)..Len(s) : FenceAt(s, b) => b <= a
             IN  SubSeq(s, 1, i - 1) \o SubSeq(s, j + 3, Len(s))

IsInlineStop(c) == c = "\n" \/ c = "\r" \/ c = Backtick

RECURSIVE InlineStop(_, _)
InlineStop(s, i) ==
    IF i <= Len(s) /\ ~IsInlineStop(s[i]) THEN InlineStop(s, i + 1) ELSE i

\* inline_codeblock_matcher, [^\n\r`]+?`, replaced by "", from position i on:
\* a match is one or more characters other than newline, return and grave,
\* then a grave.
RECURSIVE strip_inline_from(_, _)
strip_inline_from(s, i) ==
    IF i > Len(s) THEN <<>>
    ELSE LET k == InlineStop(s, i)
         IN  IF k > i /\ k <= Len(s) /\ s[k] = Backtick
             THEN strip_inline_from(s, k + 1)
             ELSE << s[i] >> \o strip_inline_from(s, i + 1)

RECURSIVE NonWhitespaceEnd(_, _)
NonWhitespaceEnd(s, i) ==
    IF i <= Len(s) /\ ~IsWhitespace(s[i]) THEN NonWhitespaceEnd(s, i + 1) ELSE i

\* tag_matcher, (\B#\S+), from position i on: the captures in order.  '#' is
\* not a word character, so \B before it holds at the start of the text and
\* after a character that is not a word character.
RECURSIVE tag_captures_from(_, _)
tag_captures_from(s, i) ==
    IF i > Len(s) THEN <<>>
    ELSE IF /\ s[i] = "#"
            /\ (i = 1 \/ ~IsWordChar(s[i - 1]))
            /\ i + 1 <= Len(s) /\ ~IsWhitespace(s[i + 1])
         THEN LET e == NonWhitespaceEnd(s, i + 1)
              IN  << SubSeq(s, i, e - 1) >> \o tag_captures_from(s, e)
         ELSE tag_captures_from(s, i + 1)

\* str::replace(c, ""): s without its occurrences of c.
RECURSIVE RemoveChar(_, _)
RemoveChar(s, c) ==
    IF s = <<>> THEN <<>>
    ELSE (IF Head(s) = c THEN <<>> ELSE << Head(s) >>) \o RemoveChar(Tail(s), c)

\* str::replace(a, b) for one-character a and b.
ReplaceChar(s, a, b) == [i \in 1..Len(s) |-> IF s[i] = a THEN b ELSE s[i]]

\* str::split(c): the pieces between the occurrences of c (one piece more than
\* there are occurrences).
RECURSIVE Split(_, _)
Split(s, c) ==
    LET hits == { i \in 1..Len(s) : s[i] = c }
    IN  IF hits = {} THEN << s >>
        ELSE LET i == CHOOSE a \in hits : \A b \in hits : a <= b
             IN  << SubSeq(s, 1, i - 1) >> \o Split(SubSeq(s, i + 1, Len(s)), c)

\* A faulty tag_splitter: the slices themselves, not the joined prefixes.
tag_splitter_slices(tag_name) == Split(tag_name, "/")

\* tag_splitter: for each i, the first i slices joined by '/'.
tag_splitter(tag_name) ==
    LET tag_slices == Split(tag_name, "/")
    IN  [i \in 1..Len(tag_slices) |-> Join(SubSeq(tag_slices, 1, i), "/")]

RECURSIVE Flatten(_)
Flatten(lists) == IF lists = <<>> THEN <<>> ELSE Head(lists) \o Flatten(Tail(lists))

\* The tags generate_note_item extracts from a note's content.
note_tags(cont) ==
    LET adj_cont == strip_inline_from(strip_codeblocks(cont), 1)
        captures == tag_captures_from(adj_cont, 1)
        tags == Flatten([i \in 1..Len(captures) |->
                            tag_splitter(RemoveChar(captures[i], "#"))])
    IN  Dedup(Sort(tags))

(***************************************************************************)
(* lib.rs: the walk of the vault                                           *)
(***************************************************************************)
\* The path of the directory the variable disk holds.
VaultPath == << << "V" >> >>

Md == << "m", "d" >>
ObsidianFolder == << ".", "o", "b", "s", "i", "d", "i", "a", "n" >>

\* generate_folder_item; local is the folder's path below the vault
\* (path.strip_prefix(vault_path)).
generate_folder_item(local, vault_path) ==
    [kind |-> "Folder",
     item |-> [name |-> local[Len(local)], path |-> vault_path \o local, local_path |-> local]]

\* generate_file_item
generate_file_item(local, vault_path) ==
    LET name == local[Len(local)]
    IN  [kind |-> "File",
         item |-> [name |-> name, file_type |-> extension(name).val,
                   path |-> vault_path \o local, local_path |-> local]]

\* generate_note_item: the name is the file stem, local_path loses its
\* extension (set_extension("")), the tags come from the content.
generate_note_item(local, vault_path, cont) ==
    LET file == local[Len(local)]
        name == file_stem(file)
    IN  [kind |-> "Note",
         item |-> [name |-> name, file_type |-> extension(file).val,
                   path |-> vault_path \o local,
                   local_path |-> SubSeq(local, 1, Len(local) - 1) \o << name >>,
                   tags |-> note_tags(cont)]]

\* recursive_generate_filefolders: Returned([out, tree]) or a panic.  The loop
\* over read_dir's entries is WalkEntries, out being out_filefolders so far.
RECURSIVE recursive_generate_filefolders(_, _, _, _, _, _), WalkEntries(_, _, _, _, _, _, _)
recursive_generate_filefolders(dir, dir_local, vault_path, include_obsidian_folder, tree, tree_parent) ==
    IF ~dir.readable THEN Panic
    ELSE WalkEntries(dir.entries, dir_local, vault_path, include_obsidian_folder,
                     tree, tree_parent, <<>>)

WalkEntries(entries, dir_local, vault_path, include_obsidian_folder, tree, tree_parent, out) ==
    IF entries = <<>> THEN Returned([out |-> out, tree |-> tree])
    ELSE
      LET child_file == Head(entries)
          local == Append(dir_local, child_file.name)
          rest == Tail(entries)
      IN  IF child_file.isDir
          THEN IF ~include_obsidian_folder /\ child_file.name = ObsidianFolder
               THEN WalkEntries(rest, dir_local, vault_path, include_obsidian_folder, tree, tree_parent, out)
               ELSE LET added == add_child(tree, tree_parent, child_file.name, "Folder")
                    IN  IF ~added.ret.some THEN Panic
                        ELSE LET children == recursive_generate_filefolders(
                                                child_file, local, vault_path, include_obsidian_folder,
                                                added.tree, added.ret.val)
                             IN  IF children.kind = "Panic" THEN Panic
                                 ELSE WalkEntries(rest, dir_local, vault_path, include_obsidian_folder,
                                                  children.val.tree, tree_parent,
                                                  Append(out, generate_folder_item(local, vault_path))
                                                    \o children.val.out)
          ELSE IF ~extension(child_file.name).some THEN Panic
          ELSE IF extension(child_file.name).val = Md
               THEN LET added == add_child(tree, tree_parent, file_stem(child_file.name), "Note")
                    IN  IF ~child_file.readable THEN Panic
                        ELSE WalkEntries(rest, dir_local, vault_path, include_obsidian_folder,
                                         added.tree, tree_parent,
                                         Append(out, generate_note_item(local, vault_path,
                                                                        child_file.content)))
               ELSE LET added == add_child(tree, tree_parent, child_file.name, "File")
                    IN  WalkEntries(rest, dir_local, vault_path, include_obsidian_folder,
                                    added.tree, tree_parent,
                                    Append(out, generate_file_item(local, vault_path)))

(***************************************************************************)
(* lib.rs: VaultIndex.  An IndexMap is modelled as the function from its   *)
(* keys to their values: insert replaces the value of a key it holds.      *)
(* No code of the crate iterates over the maps.                            *)
(***************************************************************************)
EmptyMap == << >>
MapInsert(map, key, value) ==
    [k \in DOMAIN map \cup {key} |-> IF k = key THEN value ELSE map[k]]

\* tags.get_mut(tag) pushes the name, else tags.insert(tag, vec![name]), for
\* each tag of the note in turn.
RECURSIVE AddTags(_, _, _)
AddTags(tags, note_tag_list, name) ==
    IF note_tag_list = <<>> THEN tags
    ELSE LET t == Head(note_tag_list)
             updated == IF t \in DOMAIN tags
                        THEN [tags EXCEPT ![t] = Append(@, name)]
                        ELSE MapInsert(tags, t, << name >>)
         IN  AddTags(updated, Tail(note_tag_list), name)

\* The loop of VaultIndex::new over file_collection.
RECURSIVE Collect(_, _, _)
Collect(file_collection, index, separator) ==
    IF file_collection = <<>> THEN index
    ELSE
      LET file == Head(file_collection)
          fi == file.item
          next ==
            CASE file.kind = "Note" ->
                   [index EXCEPT
                      !.filepath_ref = MapInsert(@, to_str(fi.local_path, separator), fi.name),
                      !.tags = AddTags(@, fi.tags, fi.name),
                      !.notes = MapInsert(@, fi.name, fi)]
              [] file.kind = "File" ->
                   [index EXCEPT
                      !.filepath_ref = MapInsert(@, to_str(fi.local_path, separator), fi.name),
                      !.files = MapInsert(@, fi.name, fi)]
              [] file.kind = "Folder" ->
                   [index EXCEPT !.folders = Append(@, fi)]
      IN  Collect(Tail(file_collection), next, separator)

\* The entry an absolute path names on the file system whose one top
\* directory, at VaultPath, is root; None when it names nothing.
Resolve(root, path) ==
    IF Len(path) >= Len(VaultPath) /\ SubSeq(path, 1, Len(VaultPath)) = VaultPath
    THEN Lookup(root, SubSeq(path, Len(VaultPath) + 1, Len(path)))
    ELSE None

\* Path::is_dir
is_dir(root, path) == Resolve(root, path).some /\ Resolve(root, path).val.isDir

\* VaultIndex::new: Returned(Ok(index)), Returned(Err(NotFound)) or a panic.
VaultIndexNew(path_to_vault, include_obsidian_folder, root, separator) ==
    LET empty == [name |-> <<>>, path |-> Some(<<>>), notes |-> EmptyMap,
                  files |-> EmptyMap, folders |-> <<>>, filepath_ref |-> EmptyMap,
                  tags |-> EmptyMap, tree |-> TreeNew]
    IN  IF ~path_to_vault.some THEN Returned([ok |-> TRUE, val |-> empty])
        ELSE
          LET p == path_to_vault.val
              name == file_name(p)
          IN  IF ~name.some THEN Panic
              ELSE IF ~is_dir(root, p) THEN Returned([ok |-> FALSE, err |-> "NotFound"])
              ELSE
                LET tree == [arena |-> [TreeNew.arena EXCEPT ![1].name = name.val]]
                    walked == recursive_generate_filefolders(
                                 Resolve(root, p).val, <<>>, p, include_obsidian_folder,
                                 tree, 0)
                IN  IF walked.kind = "Panic" THEN Panic
                    ELSE Returned(
                           [ok |-> TRUE,
                            val |-> Collect(walked.val.out,
                                            [empty EXCEPT !.name = name.val,
                                                          !.path = Some(p),
                                                          !.tree = walked.val.tree],
                                            separator)])

\* str::find(c).is_some()
HasChar(s, c) == \E i \in 1..Len(s) : s[i] = c

\* The name get_item and get_note look up: a path, which is an argument that
\* holds a backslash once its slashes are replaced by backslashes, is
\* resolved through filepath_ref; any other argument is the name itself.
resolve_name(index, local_path) ==
    LET adj_local_path == ReplaceChar(local_path, "/", "\\")
    IN  IF HasChar(adj_local_path, "\\")
        THEN MapGet(index.filepath_ref, adj_local_path)
        ELSE Some(local_path)

\* VaultIndex::get_item
get_item(index, local_path) ==
    LET name == resolve_name(index, local_path)
    IN  IF ~name.some THEN None
        ELSE IF name.val \in DOMAIN index.notes
             THEN Some([variant |-> "Note", item |-> index.notes[name.val]])
        ELSE IF name.val \in DOMAIN index.files
             THEN Some([variant |-> "File", item |-> index.files[name.val]])
        ELSE None

\* VaultIndex::get_note
get_note(index, local_path) ==
    LET name == resolve_name(index, local_path)
    IN  IF ~name.some THEN None ELSE MapGet(index.notes, name.val)

\* fs::read_to_string of an absolute path, on the directory root
read_to_string(root, path) ==
    LET found == Resolve(root, path)
    IN  IF found.some /\ ~found.val.isDir /\ found.val.readable
        THEN [ok |-> TRUE, val |-> found.val.content]
        ELSE [ok |-> FALSE, err |-> "io"]

\* A faulty get_note_contents: the content of whichever item was found.
get_note_contents_of_any_item(index, local_path, root) ==
    IF get_item(index, local_path).some
    THEN read_to_string(root, get_item(index, local_path).val.item.path)
    ELSE [ok |-> FALSE, err |-> "Couldn't match local path!"]

\* VaultIndex::get_note_contents
get_note_contents(index, local_path, root) ==
    LET entry == get_item(index, local_path)
    IN  IF entry.some /\ entry.val.variant = "Note"
        THEN read_to_string(root, entry.val.item.path)
        ELSE [ok |-> FALSE, err |-> "Couldn't match local path!"]

(***************************************************************************)
(* Bounds and inputs                                                       *)
(***************************************************************************)
MaxEntries == 2     \* entries of the vault's top directory
MaxOps == 2         \* AND / OR operators of a query
MaxNodes == 1       \* inner nodes of an AST handed to eval
MaxLen == 3         \* length of a match list handed to eval_or / eval_and

Separators == { "\\", "/" }

\* The arrangements of at most n distinct members of pool: the orders in which
\* read_dir may yield a directory holding some of them.
RECURSIVE Arrangements(_, _)
Arrangements(pool, n) ==
    IF n = 0 THEN { <<>> }
    ELSE LET shorter == Arrangements(pool, n - 1)
         IN  shorter \cup { Append(a, e) : <<a, e>> \in
                              { pair \in shorter \X pool : pair[2] \notin Range(pair[1]) } }

N_md == << "N", ".", "m", "d" >>
P_png == << "p", ".", "p", "n", "g" >>
TagX == << "#", "x" >>
TagY == << "#", "y" >>
TagZ == << "#", "z" >>

\* What the top directory of a vault may hold: notes of the same stem in two
\* folders, a note whose stem is a file's name, the hidden folder, a file
\* without extension, a note that cannot be read.
IndexPool ==
    { FsFile(N_md, TagX),
      FsDir(<< "D" >>, << FsFile(N_md, TagY), FsFile(P_png, <<>>) >>),
      FsFile(P_png, <<>>),
      FsFile(P_png \o << "." >> \o Md, TagY),
      FsDir(ObsidianFolder, << FsFile(<< "W", ".", "m", "d" >>, TagX) >>),
      FsFile(<< "L" >>, <<>>),
      FsUnreadable(<< "U", ".", "m", "d" >>) }

\* The arguments of VaultIndex::new: no path, the vault, a folder and a note
\* of it (when it holds them), a path that names nothing, the empty path.
PathArgs ==
    { None, Some(VaultPath), Some(VaultPath \o << << "D" >> >>),
      Some(VaultPath \o << N_md >>), Some(<< << "Z" >> >>), Some(<<>>) }

\* Names and paths to look up, in both slash forms, present or not.
LookupArgs ==
    { << "N" >>, << "D", "/", "N" >>, << "D", "\\", "N" >>,
      P_png, << "D", "/" >> \o P_png, << "D", "\\" >> \o P_png,
      << "W" >>, ObsidianFolder \o << "/", "W" >>,
      << "Z" >>, << "D", "/", "Z" >>, << "Z", "\\", "N" >> }

(***************************************************************************)
(* Actions                                                                 *)
(***************************************************************************)
NotCalled == [kind |-> "None"]
Idle == [op |-> "none"]

\* The caller holds an index and is not waiting for a call to return.
Ready == vi.kind = "Ok" /\ last = Idle

\* What the caller holds after VaultIndex::new(path_to_vault, include).
Outcome(path_to_vault, include_obsidian_folder, r) ==
    LET call == [path_to_vault |-> path_to_vault,
                 include_obsidian_folder |-> include_obsidian_folder]
    IN  IF r.kind = "Panic" THEN [kind |-> "Panic", call |-> call]
        ELSE IF r.val.ok THEN [kind |-> "Ok", call |-> call, index |-> r.val.val]
        ELSE [kind |-> "Err", call |-> call, err |-> r.val.err]

New(path_to_vault, include_obsidian_folder) ==
    /\ vi.kind = "None"
    /\ vi' = Outcome(path_to_vault, include_obsidian_folder,
                     VaultIndexNew(path_to_vault, include_obsidian_folder, disk, sep))
    /\ UNCHANGED << sep, disk, last >>

GetItem(local_path) ==
    /\ last' = [op |-> "get_item", arg |-> local_path, out |-> get_item(vi.index, local_path)]
    /\ UNCHANGED << sep, disk, vi >>

GetNote(local_path) ==
    /\ last' = [op |-> "get_note", arg |-> local_path, out |-> get_note(vi.index, local_path)]
    /\ UNCHANGED << sep, disk, vi >>

GetNoteContents(local_path) ==
    /\ last' = [op |-> "get_note_contents", arg |-> local_path,
                out |-> get_note_contents(vi.index, local_path, disk)]
    /\ UNCHANGED << sep, disk, vi >>

\* The caller is sequential: it takes the value a call returned, then makes
\* its next call.
Take ==
    /\ last # Idle
    /\ last' = Idle
    /\ UNCHANGED << sep, disk, vi >>

Construct == \E p \in PathArgs, include \in BOOLEAN : New(p, include)

Init ==
    /\ sep \in Separators
    /\ disk \in { FsDir(VaultPath[1], entries) : entries \in Arrangements(IndexPool, MaxEntries) }
    /\ vi = NotCalled
    /\ last = Idle

Next ==
    \/ Construct
    \/ Ready /\ \E a \in LookupArgs : GetItem(a)
    \/ Ready /\ \E a \in LookupArgs : GetNote(a)
    \/ Ready /\ \E a \in LookupArgs : GetNoteContents(a)
    \/ Take

Spec == Init /\ [][Next]_vars

(***************************************************************************)
(* Query strings.  A query is written as a list of tokens and rendered to  *)
(* the string handed to to_view.                                           *)
(***************************************************************************)
KwLIST == << "L", "I", "S", "T" >>
KwFROM == << "F", "R", "O", "M" >>
KwAND == << "A", "N", "D" >>
KwOR == << "O", "R" >>
LParen == << "(" >>
RParen == << ")" >>

QueryTags == { << "x" >>, << "y" >>, << "z" >> }

\* The expressions over QueryTags with exactly n operators.
RECURSIVE ExprsWith(_)
ExprsWith(n) ==
    IF n = 0 THEN { ExprSource(DataSourceTag(t)) : t \in QueryTags }
    ELSE UNION { UNION { { ExprAnd(a, b), ExprOr(a, b) } :
                           <<a, b>> \in ExprsWith(k) \X ExprsWith(n - 1 - k) } :
                 k \in 0..(n - 1) }

QueryExprs == UNION { ExprsWith(n) : n \in 0..MaxOps }

\* The tokens of an expression: the operands of a chain in a row, a right
\* operand that is itself an AND / OR in parentheses.
RECURSIVE ExprTokens(_)
ExprTokens(e) ==
    IF e.type = "Source" THEN << << "#" >> \o e.source.name >>
    ELSE ExprTokens(e.x)
         \o << IF e.type = "And" THEN KwAND ELSE KwOR >>
         \o (IF e.y.type = "Source" THEN ExprTokens(e.y)
             ELSE << LParen >> \o ExprTokens(e.y) \o << RParen >>)

QueryTokens(e) == << KwLIST, KwFROM >> \o ExprTokens(e)

\* The tokens separated by one space, none after "(" and none before ")".
RECURSIVE Render(_)
Render(tokens) ==
    IF tokens = <<>> THEN <<>>
    ELSE IF Len(tokens) = 1 THEN tokens[1]
    ELSE tokens[1]
         \o (IF tokens[1] = LParen \/ tokens[2] = RParen THEN <<>> ELSE << " " >>)
         \o Render(Tail(tokens))

ToLower(c) == IF c \in Upper THEN LowerSeq[IndexIn(UpperSeq, c)] ELSE c

\* A keyword in upper case, in lower case, or capitalised.
Styled(kw, style) ==
    CASE style = "upper" -> kw
      [] style = "lower" -> [i \in 1..Len(kw) |-> ToLower(kw[i])]
      [] style = "capital" -> [i \in 1..Len(kw) |-> IF i = 1 THEN kw[i] ELSE ToLower(kw[i])]

\* The tokens with each keyword in the letter case its style names.
Recased(tokens, style) ==
    [i \in 1..Len(tokens) |->
        CASE tokens[i] = KwLIST -> Styled(KwLIST, style.list)
          [] tokens[i] = KwFROM -> Styled(KwFROM, style.from)
          [] tokens[i] \in {KwAND, KwOR} -> Styled(tokens[i], style.op)
          [] OTHER -> tokens[i]]

CaseStyles ==
    [list : {"upper", "lower", "capital"}, from : {"upper", "lower", "capital"},
     op : {"upper", "lower"}]

\* A keyword with two neighbouring letters exchanged: LSIT, FORM, ADN, RO.
Misspelt(kw) ==
    IF Len(kw) = 2 THEN << kw[2], kw[1] >>
    ELSE [i \in 1..Len(kw) |-> IF i = 2 THEN kw[3] ELSE IF i = 3 THEN kw[2] ELSE kw[i]]

IsKeywordToken(t) == t \in {KwLIST, KwFROM, KwAND, KwOR}
IsTagToken(t) == t # <<>> /\ t[1] = "#"

RemoveAt(tokens, i) == SubSeq(tokens, 1, i - 1) \o SubSeq(tokens, i + 1, Len(tokens))
InsertAt(tokens, i, t) == SubSeq(tokens, 1, i - 1) \o << t >> \o SubSeq(tokens, i, Len(tokens))

\* The malformed token lists one change away from a well-formed one: a
\* keyword misspelt, a parenthesis removed or added so that one is unmatched,
\* a character that no tag may hold put into a tag.
Malformations(tokens) ==
    { [change |-> "keyword", tokens |-> [tokens EXCEPT ![i] = Misspelt(@)]] :
        i \in { k \in 1..Len(tokens) : IsKeywordToken(tokens[k]) } }
    \cup { [change |-> "parenthesis", tokens |-> RemoveAt(tokens, i)] :
        i \in { k \in 1..Len(tokens) : tokens[k] \in {LParen, RParen} } }
    \cup { [change |-> "parenthesis", tokens |-> InsertAt(tokens, 3, LParen)],
           [change |-> "parenthesis", tokens |-> Append(tokens, RParen)] }
    \cup { [change |-> "tag", tokens |-> [tokens EXCEPT ![i] = Append(@, "$")]] :
        i \in { k \in 1..Len(tokens) : IsTagToken(tokens[k]) } }
    \cup { [change |-> "tag", tokens |-> [tokens EXCEPT ![i] = << "#", "$" >> \o Tail(@)]] :
        i \in { k \in 1..Len(tokens) : IsTagToken(tokens[k]) } }

\* VaultIndex::query.  base is the well-formed query the string was written
\* from and change what was changed in it.
Ask(in_query, base, change) ==
    /\ last' = [op |-> "query", arg |-> in_query, base |-> base, change |-> change,
                out |-> to_view(in_query, vi.index)]
    /\ UNCHANGED << sep, disk, vi >>

Query == Ready /\ \E e \in QueryExprs :
            Ask(Render(QueryTokens(e)), Render(QueryTokens(e)), "none")

QueryRecased == Ready /\ \E e \in QueryExprs, style \in CaseStyles :
            Ask(Render(Recased(QueryTokens(e), style)), Render(QueryTokens(e)), "case")

QueryMalformed == Ready /\ \E e \in QueryExprs : \E m \in Malformations(QueryTokens(e)) :
            Ask(Render(m.tokens), Render(QueryTokens(e)), m.change)

\* eval called on an AST of any shape, with a fresh QueryStruct.
Eval(e) ==
    /\ last' = [op |-> "eval", arg |-> e, out |-> eval(e, vi.index, QueryStructNew)]
    /\ UNCHANGED << sep, disk, vi >>

EvalOr(x, y) ==
    /\ last' = [op |-> "eval_or", x |-> x, y |-> y, out |-> eval_or(x, y)]
    /\ UNCHANGED << sep, disk, vi >>

EvalAnd(x, y) ==
    /\ last' = [op |-> "eval_and", x |-> x, y |-> y, out |-> eval_and(x, y)]
    /\ UNCHANGED << sep, disk, vi >>

\* The vault of three tagged notes, C at the top or in a folder.
NoteA == FsFile(<< "A", ".", "m", "d" >>, TagX)
NoteB == FsFile(<< "B", ".", "m", "d" >>, TagY)
NoteC == FsFile(<< "C", ".", "m", "d" >>, TagX \o << " " >> \o TagY)
FolderWithC == FsDir(<< "D" >>, << NoteC >>)

\* The orders in which read_dir may yield a directory holding exactly pool.
Orders(pool) ==
    { a \in Arrangements(pool, Cardinality(pool)) : Len(a) = Cardinality(pool) }

QueryVaults == UNION { Orders({ NoteA, NoteB, c }) : c \in { NoteC, FolderWithC } }

\* ASTs of any shape with exactly n inner nodes: every Expr variant, every
\* DataSource kind.
EvalLeaves ==
    { ExprSource(DataSourceTag(<< "x" >>)), ExprSource(DataSourceTag(<< "y" >>)),
      ExprSource(DataSourceFolder(<< "D" >>)), ExprSource(DataSourceFile(<< "A" >>)),
      ExprSource(DataSourceInLink(<< "A" >>)), ExprSource(DataSourceOutLink(<< "A" >>)),
      ExprInvalid }

RECURSIVE AstsWith(_)
AstsWith(n) ==
    IF n = 0 THEN EvalLeaves
    ELSE UNION { { ExprNegate(a), ExprFrom(a), ExprList(a) } : a \in AstsWith(n - 1) }
         \cup UNION { UNION { { ExprAnd(a, b), ExprOr(a, b) } :
                                <<a, b>> \in AstsWith(k) \X AstsWith(n - 1 - k) } :
                      k \in 0..(n - 1) }

EvalExprs == UNION { AstsWith(n) : n \in 0..MaxNodes }

\* Match lists as eval hands them on: absent, or a non-empty list of names in
\* any order, repetitions included.
ListNames == { << "a" >>, << "b" >>, << "c" >> }

RECURSIVE ListsOf(_)
ListsOf(n) ==
    IF n = 0 THEN { <<>> }
    ELSE { Append(l, name) : <<l, name>> \in ListsOf(n - 1) \X ListNames }

MatchLists == { None } \cup { Some(l) : l \in UNION { ListsOf(n) : n \in 1..MaxLen } }

OpenVault == New(Some(VaultPath), FALSE)

InitQuery ==
    /\ sep \in Separators
    /\ disk \in { FsDir(VaultPath[1], entries) : entries \in QueryVaults }
    /\ vi = NotCalled
    /\ last = Idle

NextQuery ==
    \/ OpenVault
    \/ Query
    \/ Take

SpecQuery == InitQuery /\ [][NextQuery]_vars

InitSyntax ==
    /\ sep \in Separators
    /\ disk = FsDir(VaultPath[1], << NoteA, NoteB, NoteC >>)
    /\ vi = NotCalled
    /\ last = Idle

NextSyntax ==
    \/ OpenVault
    \/ QueryRecased
    \/ QueryMalformed
    \/ Ready /\ \E e \in EvalExprs : Eval(e)
    \/ Take

SpecSyntax == InitSyntax /\ [][NextSyntax]_vars

InitCombine ==
    /\ sep \in Separators
    /\ disk = FsDir(VaultPath[1], <<>>)
    /\ vi = NotCalled
    /\ last = Idle

NextCombine ==
    \/ last = Idle /\ \E x \in MatchLists, y \in MatchLists : EvalOr(x, y)
    \/ last = Idle /\ \E x \in MatchLists, y \in MatchLists : EvalAnd(x, y)
    \/ Take

SpecCombine == InitCombine /\ [][NextCombine]_vars

(***************************************************************************)
(* Properties                                                              *)
(***************************************************************************)
Sp == << " " >>
NameA == << "A" >>
NameB == << "B" >>
NameC == << "C" >>

\* QueryOutput::List of the named notes, no additional info.
Listing(names) ==
    Returned([kind |-> "List",
              items |-> [i \in 1..Len(names) |->
                           [note_name |-> Some(names[i]), additional_info |-> None]]])

\* An Option<Vec> read as a list: absent is no matches.
ListOf(opt) == IF opt.some THEN opt.val ELSE <<>>

QueryXAndY == KwLIST \o Sp \o KwFROM \o Sp \o TagX \o Sp \o KwAND \o Sp \o TagY
QueryXOrY == KwLIST \o Sp \o KwFROM \o Sp \o TagX \o Sp \o KwOR \o Sp \o TagY
QueryXAndYOrZ ==
    KwLIST \o Sp \o KwFROM \o Sp \o TagX \o Sp \o KwAND \o Sp
    \o LParen \o TagY \o Sp \o KwOR \o Sp \o TagZ \o RParen

\* C1: on the index of a vault holding note A tagged #x, note B tagged #y and
\* note C tagged #x and #y, in whichever order the walk yields them,
\* "LIST FROM #x AND #y" lists exactly C, "LIST FROM #x OR #y" lists A, B, C
\* in this order, and "LIST FROM #x AND (#y OR #z)" lists exactly C.
C1_EndToEnd ==
    (vi.kind = "Ok" /\ last.op = "query") =>
        /\ last.arg = QueryXAndY => last.out = Listing(<< NameC >>)
        /\ last.arg = QueryXOrY => last.out = Listing(<< NameA, NameB, NameC >>)
        /\ last.arg = QueryXAndYOrZ => last.out = Listing(<< NameC >>)

\* The walk met C, then B, then A, and the OR query listed them sorted.
C1_Witness ==
    /\ vi.kind = "Ok"
    /\ disk.entries = << NoteC, NoteB, NoteA >>
    /\ vi.index.tags[<< "x" >>] = << NameC, NameA >>
    /\ last.op = "query"
    /\ last.arg = QueryXOrY
    /\ last.out = Listing(<< NameA, NameB, NameC >>)

\* The list is in strictly ascending order: sorted and free of duplicates.
StrictlyAscending(list) ==
    \A i \in 1..Len(list) : \A j \in 1..Len(list) : i < j => StrLess(list[i], list[j])

\* C9: eval_or yields absent when both operands are absent, and otherwise the
\* sorted, duplicate-free list of the names that either operand holds; so an
\* absent operand leaves the other operand, sorted and deduplicated.
C9_OrCombination ==
    last.op = "eval_or" =>
        IF ~last.x.some /\ ~last.y.some THEN last.out = None
        ELSE /\ last.out.some
             /\ Range(last.out.val) = Range(ListOf(last.x)) \cup Range(ListOf(last.y))
             /\ StrictlyAscending(last.out.val)

\* An absent left operand and an unsorted right operand with a repetition.
C9_Witness ==
    /\ last.op = "eval_or"
    /\ last.x = None
    /\ last.y = Some(<< << "b" >>, << "a" >>, << "b" >> >>)
    /\ last.out = Some(<< << "a" >>, << "b" >> >>)

\* C10: eval_and yields absent when either operand is absent; otherwise its
\* matches are the elements of the left list that occur in the right list, in
\* the left list's order, no matches being given as absent.
C10_AndCombination ==
    last.op = "eval_and" =>
        IF ~last.x.some \/ ~last.y.some THEN last.out = None
        ELSE /\ ListOf(last.out) =
                  SelectSeq(last.x.val, LAMBDA item : item \in Range(last.y.val))
             /\ last.out # Some(<<>>)

\* [b, a, c] and [c, a] gave [a, c].
C10_Witness ==
    /\ last.op = "eval_and"
    /\ last.x = Some(<< << "b" >>, << "a" >>, << "c" >> >>)
    /\ last.y = Some(<< << "c" >>, << "a" >> >>)
    /\ last.out = Some(<< << "a" >>, << "c" >> >>)

\* C2: for every note the index holds whose relative path lies in a folder,
\* get_item called with the note's name, with its path written with '/' and
\* with its path written with '\' returns that note, whichever separator the
\* platform uses.
C2_PathForms ==
    (vi.kind = "Ok" /\ last.op = "get_item") =>
        \A n \in DOMAIN vi.index.notes :
            (/\ Len(vi.index.notes[n].local_path) > 1
             /\ last.arg \in { n, Join(vi.index.notes[n].local_path, "/"),
                               Join(vi.index.notes[n].local_path, "\\") })
            => last.out = Some([variant |-> "Note", item |-> vi.index.notes[n]])

\* Where the separator is '/', the note D/N is found by its name ...
C2_FoundByName ==
    /\ vi.kind = "Ok" /\ sep = "/"
    /\ << "N" >> \in DOMAIN vi.index.notes
    /\ vi.index.notes[<< "N" >>].local_path = << << "D" >>, << "N" >> >>
    /\ last.op = "get_item" /\ last.arg = << "N" >>
    /\ last.out = Some([variant |-> "Note", item |-> vi.index.notes[<< "N" >>]])

\* ... and is not found by its path.
C2_Witness ==
    /\ vi.kind = "Ok" /\ sep = "/"
    /\ << "N" >> \in DOMAIN vi.index.notes
    /\ vi.index.notes[<< "N" >>].local_path = << << "D" >>, << "N" >> >>
    /\ last.op = "get_item" /\ last.arg = << "D", "/", "N" >>
    /\ last.out = None

\* C3: get_item, and get_note for a note, called with the relative path under
\* which an item was registered returns an item whose relative path is that
\* path, also when items of different folders have the same name.
C3_ItemAtPath ==
    (/\ vi.kind = "Ok"
     /\ last.op \in {"get_item", "get_note"}
     /\ last.arg \in DOMAIN vi.index.filepath_ref) =>
        /\ last.op = "get_item" =>
              /\ last.out.some
              /\ to_str(last.out.val.item.local_path, sep) = last.arg
        /\ (/\ last.op = "get_note"
            /\ vi.index.filepath_ref[last.arg] \in DOMAIN vi.index.notes
            /\ vi.index.filepath_ref[last.arg] \notin DOMAIN vi.index.files) =>
              /\ last.out.some
              /\ to_str(last.out.val.local_path, sep) = last.arg

\* Where the separator is '\', with N.md in the folder D and at the top, the
\* path D\N gave the note at the top.
C3_Witness ==
    /\ vi.kind = "Ok" /\ sep = "\\"
    /\ last.op = "get_item" /\ last.arg = << "D", "\\", "N" >>
    /\ last.arg \in DOMAIN vi.index.filepath_ref
    /\ last.out.some
    /\ last.out.val.item.local_path = << << "N" >> >>

\* An AST that holds a Negate node, an Invalid node or a source other than a tag.
RECURSIVE Unsupported(_)
Unsupported(e) ==
    CASE e.type \in {"Negate", "Invalid"} -> TRUE
      [] e.type = "Source" -> e.source.kind # "Tag"
      [] e.type = "From" -> Unsupported(e.e)
      [] e.type = "List" -> Unsupported(e.from)
      [] e.type \in {"Or", "And"} -> Unsupported(e.x) \/ Unsupported(e.y)

\* C4: eval returns for every AST, with a match list or an error; for an AST
\* with a Negate node, an Invalid node or a source other than a tag it
\* returns an error.
C4_TypedFailure ==
    last.op = "eval" =>
        /\ last.out.kind = "Returned"
        /\ Unsupported(last.arg) => ~last.out.val.result.ok

\* eval of Negate(#x) ended in a panic.
C4_Witness ==
    /\ vi.kind = "Ok"
    /\ last.op = "eval"
    /\ last.arg = ExprNegate(ExprSource(DataSourceTag(<< "x" >>)))
    /\ last.out = Panic

\* QueryOutput::Err with at least one diagnostic.
IsErrOutput(out) ==
    out.kind = "Returned" /\ out.val.kind = "Err" /\ out.val.diagnostics # <<>>

\* C5: a query with a misspelt keyword, an unmatched parenthesis or an invalid
\* character in a tag yields QueryOutput::Err with at least one diagnostic.
C5_ParseFailure ==
    (last.op = "query" /\ last.change \in {"keyword", "parenthesis", "tag"}) =>
        IsErrOutput(last.out)

\* "LIST FROM #x AND (#y OR #z", whose parenthesis is never closed, listed
\* the notes tagged #x.
C5_Witness ==
    /\ vi.kind = "Ok"
    /\ last.op = "query"
    /\ last.change = "parenthesis"
    /\ last.arg = KwLIST \o Sp \o KwFROM \o Sp \o TagX \o Sp \o KwAND \o Sp
                  \o LParen \o TagY \o Sp \o KwOR \o Sp \o TagZ
    /\ last.out = Listing(<< NameA, NameC >>)

\* C6: a query that differs from a well-formed query only in the letter case
\* of LIST, FROM, AND, OR is accepted and gives what that query gives.
C6_KeywordCase ==
    (vi.kind = "Ok" /\ last.op = "query" /\ last.change = "case") =>
        /\ last.out.kind = "Returned"
        /\ last.out.val.kind = "List"
        /\ last.out = to_view(last.base, vi.index)

\* "list from #x and #y" was rejected.
C6_Witness ==
    /\ vi.kind = "Ok"
    /\ last.op = "query"
    /\ last.change = "case"
    /\ last.base = QueryXAndY
    /\ last.arg = [i \in 1..Len(QueryXAndY) |-> ToLower(QueryXAndY[i])]
    /\ IsErrOutput(last.out)

\* C7: VaultIndex::new with a path that is not a directory returns the
\* not-found error; with no path it returns an index with no notes, files,
\* folders, path mappings or tags and a tree of the root alone.
C7_Construction ==
    vi.kind # "None" =>
        IF ~vi.call.path_to_vault.some
        THEN /\ vi.kind = "Ok"
             /\ vi.index.notes = EmptyMap /\ vi.index.files = EmptyMap
             /\ vi.index.folders = <<>> /\ vi.index.filepath_ref = EmptyMap
             /\ vi.index.tags = EmptyMap /\ Len(vi.index.tree.arena) = 1
        ELSE ~is_dir(disk, vi.call.path_to_vault.val) =>
                (vi.kind = "Err" /\ vi.err = "NotFound")

\* VaultIndex::new(Some("")), a path that names nothing, ended in a panic.
C7_Witness ==
    /\ vi.kind = "Panic"
    /\ vi.call.path_to_vault = Some(<<>>)
    /\ ~is_dir(disk, <<>>)

\* The argument is no name of an indexed note or file and no registered
\* relative path, written with either slash.
Miss(index, arg) ==
    /\ arg \notin DOMAIN index.notes \cup DOMAIN index.files
    /\ \A k \in DOMAIN index.filepath_ref :
          arg \notin { ReplaceChar(k, "\\", "/"), ReplaceChar(k, "/", "\\") }

\* The lookups answered a miss with None, and get_note_contents answered a
\* miss, and a name that only a file has, with an error.
C8_MissAnswered ==
    vi.kind = "Ok" =>
        /\ (last.op \in {"get_item", "get_note"} /\ Miss(vi.index, last.arg)) =>
              last.out = None
        /\ (/\ last.op = "get_note_contents"
            /\ \/ Miss(vi.index, last.arg)
               \/ (/\ last.arg \in DOMAIN vi.index.files
                   /\ last.arg \notin DOMAIN vi.index.notes)) =>
              ~last.out.ok

IsLookup(op) == op \in {"get_item", "get_note", "get_note_contents"}

\* C8: get_item and get_note return None for an argument that matches no
\* indexed note or file, get_note_contents returns an error for such an
\* argument and for the name of a file that is not also a note's name, and
\* no lookup changes the index.
C8_LookupMiss ==
    /\ []C8_MissAnswered
    /\ [][IsLookup(last'.op) => vi' = vi]_vars

\* get_note_contents of the file p.png, no note having that name, gave an error.
C8_Witness ==
    /\ vi.kind = "Ok"
    /\ last.op = "get_note_contents"
    /\ last.arg = P_png
    /\ P_png \in DOMAIN vi.index.files
    /\ P_png \notin DOMAIN vi.index.notes
    /\ ~last.out.ok

\* C8 as stated: get_note_contents returns an error for every name of a file.
C8_AsStated ==
    (/\ vi.kind = "Ok"
     /\ last.op = "get_note_contents"
     /\ last.arg \in DOMAIN vi.index.files) => ~last.out.ok

(***************************************************************************)
(* tag_splitter on its own                                                 *)
(***************************************************************************)
MaxTagLen == 5      \* length of a tag handed to tag_splitter

TagChars == { "a", "b", "c", "/" }

\* The strings over chars of length n.
RECURSIVE StringsOf(_, _)
StringsOf(chars, n) ==
    IF n = 0 THEN { <<>> }
    ELSE { Append(s, c) : <<s, c>> \in StringsOf(chars, n - 1) \X chars }

\* What follows the '#' of a captured tag: any string without whitespace,
\* the empty one included, with '/' anywhere.
TagNames == UNION { StringsOf(TagChars, n) : n \in 0..MaxTagLen }

TagSplitter(tag_name) ==
    /\ last' = [op |-> "tag_splitter", arg |-> tag_name, out |-> tag_splitter(tag_name)]
    /\ UNCHANGED << sep, disk, vi >>

InitTags ==
    /\ sep \in Separators
    /\ disk = FsDir(VaultPath[1], <<>>)
    /\ vi = NotCalled
    /\ last = Idle

NextTags ==
    \/ last = Idle /\ \E tag_name \in TagNames : TagSplitter(tag_name)
    \/ Take

SpecTags == InitTags /\ [][NextTags]_vars

\* The positions of the '/' of a string, and the i-th of them.
SlashesOf(s) == { p \in 1..Len(s) : s[p] = "/" }
NthSlash(s, i) ==
    CHOOSE p \in SlashesOf(s) : Cardinality({ q \in SlashesOf(s) : q <= p }) = i

\* C11: tag_splitter of a tag with k segments between its '/' returns k
\* strings, the i-th being the tag up to the end of its i-th segment, the
\* last being the whole tag; "a/b/c" gives "a", "a/b", "a/b/c".
C11_PrefixExpansion ==
    last.op = "tag_splitter" =>
        /\ Len(last.out) = Cardinality(SlashesOf(last.arg)) + 1
        /\ \A i \in 1..Len(last.out) :
              last.out[i] = IF i = Len(last.out) THEN last.arg
                            ELSE SubSeq(last.arg, 1, NthSlash(last.arg, i) - 1)
        /\ last.arg = << "a", "/", "b", "/", "c" >> =>
              last.out = << << "a" >>, << "a", "/", "b" >>, << "a", "/", "b", "/", "c" >> >>

\* "a/b/c" was split in three.
C11_Witness ==
    /\ last.op = "tag_splitter"
    /\ last.arg = << "a", "/", "b", "/", "c" >>
    /\ Len(last.out) = 3
    /\ last.out[2] = << "a", "/", "b" >>

(***************************************************************************)
(* The tree on its own: add_child called on the tree of an index           *)
(***************************************************************************)
MaxArena == 4       \* nodes of a tree grown by add_child, the root included

ItemTypes == { "File", "Folder", "Note" }

\* Tree::add_child on the public tree of the index; before is the tree the
\* call found.
AddChild(parent, name, item) ==
    /\ Len(vi.index.tree.arena) < MaxArena
    /\ vi' = [vi EXCEPT !.index.tree = add_child(vi.index.tree, parent, name, item).tree]
    /\ last' = [op |-> "add_child", parent |-> parent, before |-> vi.index.tree,
                out |-> add_child(vi.index.tree, parent, name, item).ret]
    /\ UNCHANGED << sep, disk >>

\* VaultIndex::new(None, true): the index whose tree is Tree::new().
OpenEmpty == New(None, TRUE)

InitTree ==
    /\ sep \in Separators
    /\ disk = FsDir(VaultPath[1], <<>>)
    /\ vi = NotCalled
    /\ last = Idle

NextTree ==
    \/ OpenEmpty
    \/ Ready /\ \E parent \in 0..MaxArena, item \in ItemTypes : AddChild(parent, << "n" >>, item)
    \/ Take

SpecTree == InitTree /\ [][NextTree]_vars

\* The places where node k is listed as a child: a node and a position in
\* its children.
ChildLinks(arena, k) ==
    { <<p, j>> \in (1..Len(arena)) \X (1..Len(arena)) :
        j <= Len(arena[p].children) /\ arena[p].children[j] = k }

\* C12: the root has depth 0; every other node is listed as a child once, of
\* one node, and its depth is that node's depth plus 1; add_child with a
\* parent that is no node returns None and leaves the arena as it was, and
\* otherwise returns the index of the node it pushed.
C12_TreeDepth ==
    vi.kind = "Ok" =>
        /\ vi.index.tree.arena[1].depth = 0
        /\ \A k \in 1..(Len(vi.index.tree.arena) - 1) :
              /\ Cardinality(ChildLinks(vi.index.tree.arena, k)) = 1
              /\ \A link \in ChildLinks(vi.index.tree.arena, k) :
                    vi.index.tree.arena[k + 1].depth
                        = vi.index.tree.arena[link[1]].depth + 1
        /\ last.op = "add_child" =>
              IF last.parent >= Len(last.before.arena)
              THEN last.out = None /\ vi.index.tree = last.before
              ELSE /\ last.out = Some(Len(last.before.arena))
                   /\ Len(vi.index.tree.arena) = Len(last.before.arena) + 1

\* A tree with a node below a node below the root, on which add_child with a
\* parent that is no node failed.
C12_Witness ==
    /\ vi.kind = "Ok"
    /\ last.op = "add_child"
    /\ last.out = None
    /\ Len(vi.index.tree.arena) = 3
    /\ vi.index.tree.arena[3].depth = 2
    /\ vi.index.tree.arena[2].children = << 2 >>

(***************************************************************************)
(* Chains of operators                                                     *)
(***************************************************************************)
\* The tokens of an expression with every operand that is itself an AND / OR
\* in parentheses, the left one too.
RECURSIVE FullTokens(_)
FullTokens(e) ==
    IF e.type = "Source" THEN << << "#" >> \o e.source.name >>
    ELSE (IF e.x.type = "Source" THEN FullTokens(e.x)
          ELSE << LParen >> \o FullTokens(e.x) \o << RParen >>)
         \o << IF e.type = "And" THEN KwAND ELSE KwOR >>
         \o (IF e.y.type = "Source" THEN FullTokens(e.y)
             ELSE << LParen >> \o FullTokens(e.y) \o << RParen >>)

\* VaultIndex::query on the query written from the expression e: what the
\* parser makes of the string, and the view.
Parse(e, in_query) ==
    /\ last' = [op |-> "parse", expr |-> e, arg |-> in_query,
                ast |-> parse_recovery_verbose(in_query).ast,
                out |-> to_view(in_query, vi.index)]
    /\ UNCHANGED << sep, disk, vi >>

ParseChain == Ready /\ \E e \in QueryExprs : Parse(e, Render(QueryTokens(e)))

ParseParenthesised ==
    Ready /\ \E e \in QueryExprs : Parse(e, Render(<< KwLIST, KwFROM >> \o FullTokens(e)))

NextParse ==
    \/ OpenVault
    \/ ParseChain
    \/ ParseParenthesised
    \/ Take

SpecParse == InitSyntax /\ [][NextParse]_vars

QueryXOrYAndZ ==
    KwLIST \o Sp \o KwFROM \o Sp \o TagX \o Sp \o KwOR \o Sp \o TagY \o Sp \o KwAND \o Sp \o TagZ
QueryZAndXOrY ==
    KwLIST \o Sp \o KwFROM \o Sp \o TagZ \o Sp \o KwAND \o Sp \o TagX \o Sp \o KwOR \o Sp \o TagY

\* C13: a chain of atoms joined by AND / OR is parsed as the left fold of its
\* operators, whichever they are, an operand in parentheses being parsed as
\* an expression of its own, and the view is that of the folded expression:
\* with #z on no note, "#x OR #y AND #z" lists nothing, as (x OR y) AND z,
\* and "#z AND #x OR #y" lists the notes tagged #y, as (z AND x) OR y.
C13_LeftFold ==
    (vi.kind = "Ok" /\ last.op = "parse") =>
        /\ last.ast = Some(ExprList(ExprFrom(last.expr)))
        /\ last.out = ViewOfResult(eval(ExprList(ExprFrom(last.expr)), vi.index, QueryStructNew))
        /\ last.arg = QueryXOrYAndZ =>
              /\ last.expr = ExprAnd(ExprOr(ExprSource(DataSourceTag(<< "x" >>)),
                                            ExprSource(DataSourceTag(<< "y" >>))),
                                     ExprSource(DataSourceTag(<< "z" >>)))
              /\ last.out = Listing(<<>>)
        /\ last.arg = QueryZAndXOrY =>
              /\ last.expr = ExprOr(ExprAnd(ExprSource(DataSourceTag(<< "z" >>)),
                                            ExprSource(DataSourceTag(<< "x" >>))),
                                    ExprSource(DataSourceTag(<< "y" >>)))
              /\ last.out = Listing(<< NameB, NameC >>)

\* "#x OR #y AND #z" was parsed as (x OR y) AND z and listed nothing.
C13_Witness ==
    /\ vi.kind = "Ok"
    /\ last.op = "parse"
    /\ last.arg = QueryXOrYAndZ
    /\ last.ast.some
    /\ last.ast.val.from.e.type = "And"
    /\ last.ast.val.from.e.x.type = "Or"
    /\ last.out = Listing(<<>>)

(***************************************************************************)
(* The entries of a vault and what the index holds of them                 *)
(***************************************************************************)
\* The name ends in ".md".
EndsInMd(name) ==
    Len(name) > 3 /\ SubSeq(name, Len(name) - 2, Len(name)) = << ".", "m", "d" >>

\* The name without its last '.' and what follows it.
WithoutSuffix(name) == SubSeq(name, 1, LastIndexOf(name, ".") - 1)

\* The entries below a directory that are to be indexed, each with its path
\* below the vault, its kind, and the name of its tree node: all of them
\* but, when the flag is false, the directories named .obsidian and what
\* they hold.
RECURSIVE EntriesBelow(_, _, _)
EntriesBelow(dir, local, include) ==
    UNION { IF dir.entries[i].isDir
            THEN IF ~include /\ dir.entries[i].name = ObsidianFolder THEN {}
                 ELSE { [local |-> Append(local, dir.entries[i].name), kind |-> "Folder",
                         node |-> dir.entries[i].name] }
                      \cup EntriesBelow(dir.entries[i], Append(local, dir.entries[i].name), include)
            ELSE IF EndsInMd(dir.entries[i].name)
                 THEN { [local |-> Append(local, dir.entries[i].name), kind |-> "Note",
                         node |-> WithoutSuffix(dir.entries[i].name)] }
                 ELSE { [local |-> Append(local, dir.entries[i].name), kind |-> "File",
                         node |-> dir.entries[i].name] }
          : i \in 1..Len(dir.entries) }

RECURSIVE AllReadable(_)
AllReadable(dir) ==
    dir.readable /\ \A i \in 1..Len(dir.entries) : AllReadable(dir.entries[i])

\* The index of the tree node of the folder at a path below the vault.
RECURSIVE NodeOf(_, _)
NodeOf(arena, local) ==
    IF local = <<>> THEN 0
    ELSE CHOOSE c \in Range(arena[NodeOf(arena, SubSeq(local, 1, Len(local) - 1)) + 1].children) :
            arena[c + 1].name = local[Len(local)] /\ arena[c + 1].item = "Folder"

\* The children of the parent folder's node that stand for the entry.
NodesFor(arena, entry) ==
    { j \in 1..Len(arena[NodeOf(arena, SubSeq(entry.local, 1, Len(entry.local) - 1)) + 1].children) :
        LET c == arena[NodeOf(arena, SubSeq(entry.local, 1, Len(entry.local) - 1)) + 1].children[j]
        IN  arena[c + 1].name = entry.node /\ arena[c + 1].item = entry.kind }

IsPrefix(p, s) == Len(p) <= Len(s) /\ SubSeq(s, 1, Len(p)) = p

\* Nothing of the index comes from a directory named .obsidian.
NothingHidden(index, entries) ==
    /\ \A i \in 1..Len(index.folders) : ObsidianFolder \notin Range(index.folders[i].local_path)
    /\ \A n \in DOMAIN index.notes : ObsidianFolder \notin Range(index.notes[n].local_path)
    /\ \A n \in DOMAIN index.files : ObsidianFolder \notin Range(index.files[n].local_path)
    /\ \A k \in DOMAIN index.filepath_ref : ~IsPrefix(ObsidianFolder, k)
    /\ \A tg \in DOMAIN index.tags : \A i \in 1..Len(index.tags[tg]) :
          index.tags[tg][i] \in { e.node : e \in { x \in entries : x.kind = "Note" } }
    /\ \A k \in 1..Len(index.tree.arena) : index.tree.arena[k].name # ObsidianFolder

\* Every entry is in the index as a folder, a note or a file, with one tree
\* node under the node of the folder that holds it.
Classified(index, entries) ==
    /\ Len(index.folders) = Cardinality({ e \in entries : e.kind = "Folder" })
    /\ { index.folders[i].local_path : i \in 1..Len(index.folders) }
          = { e.local : e \in { x \in entries : x.kind = "Folder" } }
    /\ DOMAIN index.notes = { e.node : e \in { x \in entries : x.kind = "Note" } }
    /\ DOMAIN index.files = { e.node : e \in { x \in entries : x.kind = "File" } }
    /\ Len(index.tree.arena) = 1 + Cardinality(entries)
    /\ \A e \in entries : Cardinality(NodesFor(index.tree.arena, e)) = 1

\* C14: building the index of a vault whose entries can all be read gives an
\* index; with the flag false nothing of it comes from a directory named
\* .obsidian, with the flag true that directory is indexed as any other; and
\* every entry to be indexed is a Folder when it is a directory, a Note when
\* its extension is md and a File otherwise, with exactly one tree node
\* under its parent folder's node.
C14_Classification ==
    (/\ vi.kind # "None"
     /\ vi.call.path_to_vault = Some(VaultPath)
     /\ AllReadable(disk)) =>
        /\ vi.kind = "Ok"
        /\ ~vi.call.include_obsidian_folder =>
              NothingHidden(vi.index, EntriesBelow(disk, <<>>, FALSE))
        /\ Classified(vi.index, EntriesBelow(disk, <<>>, vi.call.include_obsidian_folder))

\* The vault held the file L, which has no extension, and building its index
\* ended in a panic.
C14_Witness ==
    /\ vi.kind = "Panic"
    /\ vi.call.path_to_vault = Some(VaultPath)
    /\ AllReadable(disk)
    /\ \E i \in 1..Len(disk.entries) : disk.entries[i].name = << "L" >>

\* Every file of the vault has an extension.
RECURSIVE AllWithExtension(_)
AllWithExtension(dir) ==
    \A i \in 1..Len(dir.entries) :
        IF dir.entries[i].isDir THEN AllWithExtension(dir.entries[i])
        ELSE HasChar(Tail(dir.entries[i].name), ".")

\* C14 for the vaults whose files all have an extension.
C14_WithExtensions == AllWithExtension(disk) => C14_Classification

\* The hidden folder was skipped: the vault holds .obsidian with the note W,
\* and the index built with the flag false holds no note.
C14_Skipped ==
    /\ vi.kind = "Ok"
    /\ ~vi.call.include_obsidian_folder
    /\ disk.entries = << FsDir(ObsidianFolder, << FsFile(<< "W", ".", "m", "d" >>, TagX) >>) >>
    /\ vi.index.notes = EmptyMap
    /\ Len(vi.index.tree.arena) = 1

(***************************************************************************)
(* Notes of the same name in several folders                               *)
(***************************************************************************)
M_md == << "M", ".", "m", "d" >>

\* Notes named N at the top of the vault and in two folders, sharing tags,
\* and a note of another name.
SameNamePool ==
    { FsFile(N_md, TagX),
      FsDir(<< "D" >>, << FsFile(N_md, TagX \o << " " >> \o TagY) >>),
      FsDir(<< "E" >>, << FsFile(N_md, TagY) >>),
      FsFile(M_md, TagX) }

InitSameName ==
    /\ sep \in Separators
    /\ disk \in { FsDir(VaultPath[1], entries) : entries \in Arrangements(SameNamePool, MaxEntries) }
    /\ vi = NotCalled
    /\ last = Idle

SpecSameName == InitSameName /\ [][NextQuery]_vars

NoRepeat(list) == \A i, j \in 1..Len(list) : list[i] = list[j] => i = j

QueryX == KwLIST \o Sp \o KwFROM \o Sp \o TagX
QueryYAndX == KwLIST \o Sp \o KwFROM \o Sp \o TagY \o Sp \o KwAND \o Sp \o TagX

\* C15: in a built index no tag's list of note names holds a name twice, and
\* the list a query returns holds no note name twice.
C15_NoDuplicates ==
    vi.kind = "Ok" =>
        /\ \A tg \in DOMAIN vi.index.tags : NoRepeat(vi.index.tags[tg])
        /\ (/\ last.op = "query"
            /\ last.out.kind = "Returned"
            /\ last.out.val.kind = "List") =>
                NoRepeat([i \in 1..Len(last.out.val.items) |-> last.out.val.items[i].note_name])

\* The vault holds N.md tagged #x and D/N.md tagged #x and #y, the tag map
\* lists N twice under x, and "LIST FROM #x" returned N twice.
C15_Witness ==
    /\ vi.kind = "Ok"
    /\ disk.entries = << FsFile(N_md, TagX),
                         FsDir(<< "D" >>, << FsFile(N_md, TagX \o << " " >> \o TagY) >>) >>
    /\ vi.index.tags[<< "x" >>] = << << "N" >>, << "N" >> >>
    /\ last.op = "query"
    /\ last.arg = QueryX
    /\ last.out = Listing(<< << "N" >>, << "N" >> >>)

\* On the vault holding D/N.md tagged #x and #y and E/N.md tagged #y, the
\* tag map lists N twice under y, "LIST FROM #y AND #x" returned N twice and
\* "LIST FROM #x OR #y" returned it once.
C15_AndOr ==
    (/\ vi.kind = "Ok"
     /\ disk.entries = << FsDir(<< "D" >>, << FsFile(N_md, TagX \o << " " >> \o TagY) >>),
                          FsDir(<< "E" >>, << FsFile(N_md, TagY) >>) >>
     /\ last.op = "query"
     /\ last.arg \in { QueryYAndX, QueryXOrY }) =>
        /\ vi.index.tags[<< "y" >>] = << << "N" >>, << "N" >> >>
        /\ last.arg = QueryYAndX => last.out = Listing(<< << "N" >>, << "N" >> >>)
        /\ last.arg = QueryXOrY => last.out = Listing(<< << "N" >> >>)

(***************************************************************************)
(* The tags of a note's content                                            *)
(***************************************************************************)
MaxPieces == 3      \* pieces of a note's content

TagB == << "#", "b" >>
TagAC == << "#", "a", "/", "c" >>
PlainText == << "t" >>
\* A fenced code region and an inline code span, each holding "#c".
FencedCode ==
    << Backtick, Backtick, Backtick, "\n", "#", "c", "\n", Backtick, Backtick, Backtick >>
InlineCode == << Backtick, "#", "c", Backtick >>

ContentPieces == { TagB, TagAC, PlainText, FencedCode, InlineCode }

\* The contents written as at most MaxPieces pieces.
RECURSIVE PiecesOf(_)
PiecesOf(n) ==
    IF n = 0 THEN { <<>> }
    ELSE { Append(s, c) : <<s, c>> \in PiecesOf(n - 1) \X ContentPieces }

NoteContents == UNION { PiecesOf(n) : n \in 0..MaxPieces }

\* generate_note_item on the note N.md whose content is the pieces with the
\* joiner, a space or a newline, between them.
GenerateNoteItem(pieces, joiner) ==
    /\ last' = [op |-> "generate_note_item", pieces |-> pieces, joiner |-> joiner,
                arg |-> Join(pieces, joiner),
                out |-> generate_note_item(<< N_md >>, VaultPath, Join(pieces, joiner)).item]
    /\ UNCHANGED << sep, disk, vi >>

NextExtract ==
    \/ last = Idle /\ \E pieces \in NoteContents, joiner \in { " ", "\n" } :
          GenerateNoteItem(pieces, joiner)
    \/ Take

SpecExtract == InitTags /\ [][NextExtract]_vars

\* The cumulative '/'-prefixes of a '#'-token, without the '#'.
PrefixesOf(token) ==
    { SubSeq(token, 2, k) : k \in { n \in 2..Len(token) : n = Len(token) \/ token[n + 1] = "/" } }

\* The tags the pieces outside code give.
TagsOutsideCode(pieces) ==
    UNION { PrefixesOf(pieces[i]) : i \in { k \in 1..Len(pieces) : pieces[k] \in { TagB, TagAC } } }

\* C16: the tags of a note are, sorted and without duplicates, exactly the
\* cumulative '/'-prefixes of the '#'-tokens of its content that are outside
\* fenced code regions and inline code spans: no token inside code is
\* extracted, no token outside code is lost.
C16_TagExtraction ==
    last.op = "generate_note_item" =>
        /\ Range(last.out.tags) = TagsOutsideCode(last.pieces)
        /\ StrictlyAscending(last.out.tags)

\* The content "#b `#c`": the tag b, before an inline code span on its line,
\* is not among the note's tags.
C16_Witness ==
    /\ last.op = "generate_note_item"
    /\ last.pieces = << TagB, InlineCode >>
    /\ last.joiner = " "
    /\ last.out.tags = <<>>

\* The tag a/c between two fenced regions is not among the note's tags.
C16_BetweenFences ==
    /\ last.op = "generate_note_item"
    /\ last.pieces = << FencedCode, TagAC, FencedCode >>
    /\ last.out.tags = <<>>

\* C16 for the contents with one piece a line and at most one fenced region.
C16_OnePieceALine ==
    (/\ last.op = "generate_note_item"
     /\ last.joiner = "\n"
     /\ Cardinality({ i \in 1..Len(last.pieces) : last.pieces[i] = FencedCode }) <= 1) =>
        C16_TagExtraction

\* "#a/c #b" gave the tags a, a/c, b.
C16_Extracted ==
    /\ last.op = "generate_note_item"
    /\ last.pieces = << TagB, TagAC >>
    /\ last.out.tags = << << "a" >>, << "a", "/", "c" >>, << "b" >> >>

=============================================================================
